---- MODULE Spec2Model ----
(***************************************************************************)
(* Model of the per-request response-augmentation pipeline of the course   *)
(* site: the greeting resolvers, the locals composer (addLocalVariables),  *)
(* the head-asset registry (setHeadAssetsFunctionality) and the section    *)
(* style middleware of the router.                                         *)
(*                                                                         *)
(* JavaScript arrays and objects are references, so they live in two heaps *)
(* (arrays, objects) and the request/response records hold addresses: a    *)
(* sort in place, a shared array or an aliased object is then visible.     *)
(***************************************************************************)
EXTENDS Integers, Sequences, FiniteSets, TLC

(***************************************************************************)
(* Bounds of the model.                                                    *)
(***************************************************************************)
\* requests (each with its own req/res pair) in one behaviour
NumReq == 2
\* registrations (addStyle + addScript) made on one response
MaxEntries == 4
\* Math.random() returns k / RandSteps for some k in 0 .. RandSteps - 1
RandSteps == 12

VARIABLES
    arrays,      \* heap of arrays: arrays[a] is the array at address a
    objects,     \* heap of plain objects (query mappings): objects[a]
    processEnv,  \* process.env.NODE_ENV: undefined or a string
    rq,          \* rq[r]: the req/res pair of request r
    registered,  \* history: what was passed to r's addStyle/addScript, in call order
    runs,        \* history: r's render outputs since the last registration
    probe,       \* the greeting resolvers applied to a clock reading
    eh,          \* an error on its way through the error handlers
    rt,          \* rt[r]: where request r is in the application's middleware stack
    db,          \* the database: the faculty and users tables
    store,       \* the session store: store[sid] is the session of cookie sid
    hs           \* the form or detail handler being run, and what it did

vars == <<arrays, objects, processEnv, rq, registered, runs, probe, eh, rt, db, store, hs>>

Reqs == 1 .. NumReq

(***************************************************************************)
(* JavaScript values.  A value that may be undefined is a record with a    *)
(* type tag; strings that are case-converted are sequences of characters.  *)
(***************************************************************************)
Undefined == [t |-> "undefined", v |-> ""]
JSString(s) == [t |-> "string", v |-> s]

\* String(x), as a template literal `${x}` converts its argument
ToStr(x) == IF x.t = "undefined" THEN "undefined" ELSE x.v

\* an environment value: undefined, or a string as a sequence of characters
EnvUndefined == [t |-> "undefined", v |-> <<>>]
EnvString(chars) == [t |-> "string", v |-> chars]

LowerChar(c) ==
    CASE c = "P" -> "p" [] c = "R" -> "r" [] c = "O" -> "o" [] c = "D" -> "d"
      [] c = "E" -> "e" [] c = "V" -> "v" [] c = "T" -> "t" [] c = "S" -> "s"
      [] OTHER -> c

\* String.prototype.toLowerCase
toLowerCase(chars) == [i \in 1 .. Len(chars) |-> LowerChar(chars[i])]

production == <<"p", "r", "o", "d", "u", "c", "t", "i", "o", "n">>

\* a session: undefined, or an object whose user property may be undefined
NoSession == [t |-> "undefined", user |-> Undefined]
Session(u) == [t |-> "object", user |-> u]
UserObject == [t |-> "object", v |-> "alice"]

\* ToBoolean
Truthy(x) == CASE x.t = "undefined" -> FALSE
               [] x.t = "string" -> x.v # ""
               [] OTHER -> TRUE

(***************************************************************************)
(* Greeting resolvers (pure functions of the clock reading).               *)
(***************************************************************************)
\* (a plausible slip: an inclusive boundary, currentHour <= 12)
getCurrentGreetingInclusive(currentHour) ==
    IF currentHour <= 12 THEN "Good Morning!"
    ELSE IF currentHour < 18 THEN "Good Afternoon!"
    ELSE "Good Evening!"

getCurrentGreeting(currentHour) ==
    IF currentHour < 12 THEN "Good Morning!"
    ELSE IF currentHour < 18 THEN "Good Afternoon!"
    ELSE "Good Evening!"

\* the four messages, without the emoji each one starts with in the source
WinterMsg == "Frosty greetings from someone who hasn't felt their toes since November."
SpringMsg == "May your spring be sunny and your antihistamines strong."
SummerMsg == "Warm summer wishes from the land of iced drinks and questionable tan lines."
FallMsg == "Happy Fall! May your pumpkin spice be strong and your rakes be sturdy."

\* (a plausible change: January joins the winter band, month <= 1)
getSeasonalGreetingJanuary(month) ==
    IF month = 11 \/ month <= 1 THEN JSString(WinterMsg)
    ELSE IF month >= 2 /\ month <= 4 THEN JSString(SpringMsg)
    ELSE IF month >= 5 /\ month <= 7 THEN JSString(SummerMsg)
    ELSE Undefined

\* the fall branch assigns a local and falls off the end: no return value
getSeasonalGreeting(month) ==
    IF month = 11 \/ month = 1 THEN JSString(WinterMsg)
    ELSE IF month >= 2 /\ month <= 4 THEN JSString(SpringMsg)
    ELSE IF month >= 5 /\ month <= 7 THEN JSString(SummerMsg)
    ELSE Undefined

(***************************************************************************)
(* Head-asset registry.                                                    *)
(***************************************************************************)
Entry(css, priority) == [content |-> css, priority |-> priority]

\* (a plausible slip: ascending order, a.priority - b.priority)
compareAscending(a, b) == a.priority - b.priority

\* the comparator of both renderers: (a, b) => b.priority - a.priority
compare(a, b) == b.priority - a.priority

\* Array.prototype.sort is stable: e goes before the first element that the
\* comparator orders after it, and after every element it ties with
RECURSIVE InsertSorted(_, _)
InsertSorted(s, e) ==
    IF s = <<>> THEN <<e>>
    ELSE IF compare(Head(s), e) > 0 THEN <<e>> \o s
    ELSE <<Head(s)>> \o InsertSorted(Tail(s), e)

RECURSIVE sort(_)
sort(s) ==
    IF s = <<>> THEN <<>>
    ELSE InsertSorted(sort(SubSeq(s, 1, Len(s) - 1)), s[Len(s)])

\* .map(item => item.content)
mapContent(s) == [i \in 1 .. Len(s) |-> s[i].content]

\* Array.prototype.join
RECURSIVE join(_, _)
join(s, sep) ==
    IF s = <<>> THEN ""
    ELSE IF Len(s) = 1 THEN s[1]
    ELSE s[1] \o sep \o join(Tail(s), sep)

\* (a plausible slip: an entry whose content is already present is skipped)
addStyleUnique(arrs, locals, css, args) ==
    LET priority == IF args = <<>> THEN 0 ELSE args[1]
        present == \E i \in DOMAIN arrs[locals.styles] :
                       arrs[locals.styles][i].content = css
    IN  IF present THEN arrs
        ELSE [arrs EXCEPT ![locals.styles] = Append(@, Entry(css, priority))]

\* res.addStyle(css, priority = 0); args holds the optional second argument
addStyle(arrs, locals, css, args) ==
    LET priority == IF args = <<>> THEN 0 ELSE args[1]
    IN  [arrs EXCEPT ![locals.styles] = Append(@, Entry(css, priority))]

\* res.addScript(js, priority = 0)
addScript(arrs, locals, js, args) ==
    LET priority == IF args = <<>> THEN 0 ELSE args[1]
    IN  [arrs EXCEPT ![locals.scripts] = Append(@, Entry(js, priority))]

\* (a plausible slip: a render that drains the array as it emits it)
renderStylesDraining(arrs, locals) ==
    [arrays |-> [arrs EXCEPT ![locals.styles] = <<>>],
     out |-> join(mapContent(sort(arrs[locals.styles])), "\n")]

\* res.locals.renderStyles(): sorts the array in place, then maps and joins
renderStyles(arrs, locals) ==
    LET sorted == sort(arrs[locals.styles])
    IN  [arrays |-> [arrs EXCEPT ![locals.styles] = sorted],
         out |-> join(mapContent(sorted), "\n")]

\* res.locals.renderScripts()
renderScripts(arrs, locals) ==
    LET sorted == sort(arrs[locals.scripts])
    IN  [arrays |-> [arrs EXCEPT ![locals.scripts] = sorted],
         out |-> join(mapContent(sorted), "\n")]

\* (a plausible slip: the two arrays are module-level and handed to every
\* response as they are)
setHeadAssetsShared(arrs, locals) ==
    [arrays |-> IF arrs = <<>> THEN << <<>>, <<>> >> ELSE arrs,
     locals |-> [locals EXCEPT !.styles = 1, !.scripts = 2]]

\* (a plausible slip: the two arrays are module-level and emptied on install)
setHeadAssetsSharedCleared(arrs, locals) ==
    [arrays |-> IF arrs = <<>> THEN << <<>>, <<>> >>
                ELSE [arrs EXCEPT ![1] = <<>>, ![2] = <<>>],
     locals |-> [locals EXCEPT !.styles = 1, !.scripts = 2]]

\* (a plausible slip: the second assignment repeats res.locals.styles)
setHeadAssetsStylesOnly(arrs, locals) ==
    [arrays |-> arrs \o << <<>>, <<>> >>,
     locals |-> [locals EXCEPT !.styles = Len(arrs) + 2]]

\* installs two fresh empty arrays on res.locals
setHeadAssetsFunctionality(arrs, locals) ==
    [arrays |-> arrs \o << <<>>, <<>> >>,
     locals |-> [locals EXCEPT !.styles = Len(arrs) + 1,
                               !.scripts = Len(arrs) + 2]]

(***************************************************************************)
(* Locals composer.                                                        *)
(***************************************************************************)
themes == <<"blue-theme", "green-theme", "red-theme", "yellow-theme",
            "purple-theme", "orange-theme">>

\* res.locals of a response no middleware has touched: no field is set
\* (address 0 is no array and no object)
FreshLocals ==
    [currentYear |-> 0, NODE_ENV |-> <<>>, queryParams |-> 0, greeting |-> "",
     seasonalGreeting |-> "", bodyClass |-> "", isLoggedIn |-> FALSE,
     styles |-> 0, scripts |-> 0]

\* (a plausible slip: process.env.NODE_ENV || 'production', no toLowerCase)
NodeEnvRaw(env) ==
    IF env.t = "undefined" \/ env.v = <<>> THEN production ELSE env.v

\* process.env.NODE_ENV?.toLowerCase() || 'production'
NodeEnv(env) ==
    LET lowered == IF env.t = "undefined" THEN EnvUndefined
                   ELSE EnvString(toLowerCase(env.v))
    IN  IF lowered.t = "undefined" \/ lowered.v = <<>> THEN production
        ELSE lowered.v

\* (a plausible slip: Math.random() * (themes.length - 1))
randomThemeShort(k) == themes[((k * (Len(themes) - 1)) \div RandSteps) + 1]

\* themes[Math.floor(Math.random() * themes.length)], Math.random() = k / RandSteps
randomTheme(k) == themes[((k * Len(themes)) \div RandSteps) + 1]

\* (a plausible slip: the test stops at req.session)
isLoggedInSessionOnly(session) == session.t # "undefined"

\* req.session && req.session.user
isLoggedIn(session) ==
    IF session.t = "undefined" THEN FALSE ELSE Truthy(session.user)

\* (a plausible slip: res.locals.queryParams = req.query, the same object)
aliasQuery(objs, req) == [objects |-> objs, addr |-> req.query]

\* { ...req.query }: a new object with the own properties of req.query
copyQuery(objs, req) ==
    [objects |-> Append(objs, objs[req.query]), addr |-> Len(objs) + 1]

\* addLocalVariables(req, res, next) without its call of next(): the heaps and
\* res.locals after it; year, hour, month are what the three clock readings
\* return and k / RandSteps is what Math.random() returns
addLocalVariables(arrs, objs, env, req, locals, year, hour, month, k) ==
    LET copy == copyQuery(objs, req)
        l1 == [locals EXCEPT
                 !.currentYear = year,
                 !.NODE_ENV = NodeEnv(env),
                 !.queryParams = copy.addr,
                 !.greeting = "<p>" \o getCurrentGreeting(hour) \o "</p>",
                 !.seasonalGreeting =
                     "<p>" \o ToStr(getSeasonalGreeting(month)) \o "</p>",
                 !.bodyClass = randomTheme(k),
                 !.isLoggedIn = isLoggedIn(req.session)]
        installed == setHeadAssetsFunctionality(arrs, l1)
    IN  [arrays |-> installed.arrays,
         objects |-> copy.objects,
         locals |-> installed.locals]

(***************************************************************************)
(* Errors and the response an error handler writes to.                     *)
(***************************************************************************)
Null == [t |-> "null", v |-> ""]

\* an Error: status is absent unless a handler set err.status
NewError(message) ==
    [hasStatus |-> FALSE, status |-> 0, message |-> message,
     stack |-> "Error: " \o message \o " at ..."]

WithStatus(err, status) == [err EXCEPT !.hasStatus = TRUE, !.status = status]

\* a response nothing was written to: writes counts the times a response was
\* started on it, view and context are what res.render was called with
OpenResponse ==
    [headersSent |-> FALSE, finished |-> FALSE, statusCode |-> 200,
     writes |-> 0, view |-> "", body |-> "",
     context |-> [title |-> "", error |-> "", stack |-> Null, NODE_ENV |-> <<>>]]

NoError ==
    [phase |-> "idle", err |-> NewError(""), res |-> OpenResponse,
     before |-> OpenResponse, outcome |-> "", forwarded |-> 0]

\* a request at the head of the application's stack: stage and layer are
\* positions in the stack and in the router, failed says an error is being
\* passed along, log lists what ran for the request, atHandler is the style
\* collection as the terminal handler found it
NoRoute ==
    [stage |-> 1, layer |-> 1, failed |-> FALSE, err |-> NewError(""),
     res |-> OpenResponse, log |-> <<>>, handler |-> "", atHandler |-> <<>>]

\* empty tables, an empty session store, and no handler running
NoDb == [faculty |-> {}, users |-> <<>>]

\* sessions[sid] is the stored session (undefined once destroyed), cookie is
\* the browser's connect.sid (0: none), loggedIn[sid] remembers whether a
\* login succeeded on sid with no destroy of it since
NoStore == [sessions |-> <<>>, cookie |-> 0, loggedIn |-> <<>>]

NoCall ==
    [handler |-> "", phase |-> "idle", sid |-> 0, input |-> <<>>,
     events |-> <<>>, err |-> NewError(""), view |-> "", title |-> "",
     login |-> [email |-> "", password |-> ""],
     registration |-> [name |-> "", email |-> "", emailConfirm |-> "",
                       password |-> "", passwordConfirm |-> ""],
     throwsAt |-> "none", hadSession |-> FALSE, prev |-> "", prevSid |-> 0,
     sessionBefore |-> NoSession, usersBefore |-> <<>>]

\* handler starts running for a request of session sid
Call(handler, sid) == [NoCall EXCEPT !.handler = handler, !.sid = sid]

(***************************************************************************)
(* Requests.  A path is its sequence of segments: "/catalog/random" is     *)
(* <<"catalog", "random">> and "/" is <<>>.                                *)
(***************************************************************************)
NoRequest ==
    [pc |-> "idle", path |-> <<>>, session |-> NoSession, query |-> 0,
     sent |-> <<>>, locals |-> FreshLocals, nextCalls |-> 0,
     out |-> [styles |-> "", scripts |-> ""],
     seen |-> [month |-> 0], touched |-> FALSE]

NoHistory == [styles |-> <<>>, scripts |-> <<>>]

\* an inbound request: express builds req (with its parsed query object) and
\* a res whose locals are empty; sent remembers the query as it arrived
Arrive(r, path, session, query) ==
    /\ rq[r].pc = "idle"
    /\ objects' = Append(objects, query)
    /\ rq' = [rq EXCEPT ![r] = [NoRequest EXCEPT
                  !.pc = "arrived", !.path = path, !.session = session,
                  !.query = Len(objects) + 1, !.sent = query]]
    /\ UNCHANGED <<arrays, processEnv, registered, runs, probe, eh, rt, db, store, hs>>

\* the composer runs on request r and calls next()
Compose(r, year, hour, month, k) ==
    /\ rq[r].pc = "arrived"
    /\ LET done == addLocalVariables(arrays, objects, processEnv, rq[r],
                                     rq[r].locals, year, hour, month, k)
       IN  /\ arrays' = done.arrays
           /\ objects' = done.objects
           /\ rq' = [rq EXCEPT ![r].locals = done.locals,
                               ![r].pc = "composed",
                               ![r].nextCalls = @ + 1,
                               ![r].seen = [month |-> month]]
    /\ UNCHANGED <<processEnv, registered, runs, probe, eh, rt, db, store, hs>>

\* a downstream stage or template writes res.locals.queryParams[key] = value
SetQueryParam(r, key, value) ==
    /\ rq[r].pc = "composed"
    /\ objects' = [objects EXCEPT ![rq[r].locals.queryParams] =
                       [x \in (DOMAIN @) \cup {key} |->
                           IF x = key THEN value ELSE @[x]]]
    /\ rq' = [rq EXCEPT ![r].touched = TRUE]
    /\ UNCHANGED <<arrays, processEnv, registered, runs, probe, eh, rt, db, store, hs>>

(***************************************************************************)
(* Registry calls made by a pending stage of request r.                    *)
(***************************************************************************)
Registrations(r) == Len(registered[r].styles) + Len(registered[r].scripts)

Keep2(s, out) == IF Len(s) = 2 THEN <<s[2], out>> ELSE Append(s, out)

AddStyle(r, css, args) ==
    /\ rq[r].pc = "composed"
    /\ Registrations(r) < MaxEntries
    /\ arrays' = addStyle(arrays, rq[r].locals, css, args)
    /\ registered' = [registered EXCEPT ![r].styles =
           Append(@, Entry(css, IF args = <<>> THEN 0 ELSE args[1]))]
    /\ runs' = [runs EXCEPT ![r].styles = <<>>]
    /\ UNCHANGED <<objects, processEnv, rq, probe, eh, rt, db, store, hs>>

AddScript(r, js, args) ==
    /\ rq[r].pc = "composed"
    /\ Registrations(r) < MaxEntries
    /\ arrays' = addScript(arrays, rq[r].locals, js, args)
    /\ registered' = [registered EXCEPT ![r].scripts =
           Append(@, Entry(js, IF args = <<>> THEN 0 ELSE args[1]))]
    /\ runs' = [runs EXCEPT ![r].scripts = <<>>]
    /\ UNCHANGED <<objects, processEnv, rq, probe, eh, rt, db, store, hs>>

RenderStyles(r) ==
    /\ rq[r].pc = "composed"
    /\ LET done == renderStyles(arrays, rq[r].locals)
       IN  /\ arrays' = done.arrays
           /\ runs' = [runs EXCEPT ![r].styles = Keep2(@, done.out)]
    /\ UNCHANGED <<objects, processEnv, rq, registered, probe, eh, rt, db, store, hs>>

RenderScripts(r) ==
    /\ rq[r].pc = "composed"
    /\ LET done == renderScripts(arrays, rq[r].locals)
       IN  /\ arrays' = done.arrays
           /\ runs' = [runs EXCEPT ![r].scripts = Keep2(@, done.out)]
    /\ UNCHANGED <<objects, processEnv, rq, registered, probe, eh, rt, db, store, hs>>

(***************************************************************************)
(* The registry on its own: one response, any registrations and renders.   *)
(***************************************************************************)
Contents == {"A", "B"}
Priorities == {0, 1, 3}
PriorityArgs == {<<>>} \cup {<<p>> : p \in Priorities}

NoProbe == [hour |-> 0, month |-> 0, done |-> FALSE, time |-> "",
            seasonal |-> Undefined]

\* the state right after the composer ran for request 1
InitAssets ==
    LET req == [NoRequest EXCEPT !.pc = "arrived", !.query = 1]
        done == addLocalVariables(<<>>, << <<>> >>, EnvUndefined, req,
                                  FreshLocals, 2025, 9, 10, 0)
    IN  /\ arrays = done.arrays
        /\ objects = done.objects
        /\ processEnv = EnvUndefined
        /\ rq = [r \in Reqs |->
                   IF r = 1
                   THEN [req EXCEPT !.pc = "composed", !.locals = done.locals,
                                    !.nextCalls = 1,
                                    !.seen = [month |-> 10]]
                   ELSE NoRequest]
        /\ registered = [r \in Reqs |-> NoHistory]
        /\ runs = [r \in Reqs |-> NoHistory]
        /\ probe = NoProbe
        /\ eh = NoError
        /\ rt = [r \in Reqs |-> NoRoute]
        /\ db = NoDb
        /\ store = NoStore
        /\ hs = NoCall

NextAssets ==
    \/ \E c \in Contents, a \in PriorityArgs : AddStyle(1, c, a)
    \/ \E c \in Contents, a \in PriorityArgs : AddScript(1, c, a)
    \/ RenderStyles(1)
    \/ RenderScripts(1)

SpecAssets == InitAssets /\ [][NextAssets]_vars

(***************************************************************************)
(* Claims about the registry (checked under SpecAssets).                   *)
(***************************************************************************)
\* the entries of s in descending priority, equal priorities in the order of s
RECURSIVE ByPriority(_, _)
ByPriority(s, ps) ==
    IF ps = {} THEN <<>>
    ELSE LET top == CHOOSE p \in ps : \A q \in ps : q <= p
             isTop(e) == e.priority = top
         IN  SelectSeq(s, isTop) \o ByPriority(s, ps \ {top})

ExpectedRender(s) ==
    join(mapContent(ByPriority(s, {s[i].priority : i \in DOMAIN s})), "\n")

\* C1: a call of renderStyles or renderScripts leaves the collections as they
\* were before the call: the same entries in the same order.
C1_RenderLeavesCollections ==
    [][\A r \in Reqs : (RenderStyles(r) \/ RenderScripts(r)) => arrays' = arrays]_vars

\* C2: whatever registrations and renders came before, a render returns the
\* contents of exactly the entries registered so far, joined by newlines, in
\* descending priority, equal priorities in insertion order.
C2_RenderOrder ==
    \A r \in Reqs :
        /\ runs[r].styles # <<>> =>
               runs[r].styles[Len(runs[r].styles)] = ExpectedRender(registered[r].styles)
        /\ runs[r].scripts # <<>> =>
               runs[r].scripts[Len(runs[r].scripts)] = ExpectedRender(registered[r].scripts)

\* the spec's example [(A,1),(B,3),(C,3),(D,0)] with two contents: the two
\* entries of priority 3 keep their insertion order
C2_Witness ==
    /\ registered[1].scripts =
           <<Entry("A", 1), Entry("B", 3), Entry("A", 3), Entry("B", 0)>>
    /\ runs[1].scripts = <<"B\nA\nA\nB", "B\nA\nA\nB">>

\* C3: two successive renders of a collection with no registration on it in
\* between return the same string.
C3_RenderIdempotent ==
    \A r \in Reqs :
        /\ Len(runs[r].styles) = 2 => runs[r].styles[1] = runs[r].styles[2]
        /\ Len(runs[r].scripts) = 2 => runs[r].scripts[1] = runs[r].scripts[2]

\* the first render reorders the array in place, the second one runs on it
C3_Witness ==
    /\ registered[1].styles = <<Entry("A", 1), Entry("B", 3), Entry("A", 3)>>
    /\ runs[1].styles = <<"B\nA\nA", "B\nA\nA">>
    /\ arrays[rq[1].locals.styles] # registered[1].styles

(***************************************************************************)
(* The greeting resolvers on their own: every clock reading.               *)
(***************************************************************************)
Hours == 0 .. 23
Months == 0 .. 11

Resolve ==
    /\ ~probe.done
    /\ probe' = [probe EXCEPT !.done = TRUE,
                              !.time = getCurrentGreeting(probe.hour),
                              !.seasonal = getSeasonalGreeting(probe.month)]
    /\ UNCHANGED <<arrays, objects, processEnv, rq, registered, runs, eh, rt, db, store, hs>>

InitGreeting ==
    /\ arrays = <<>>
    /\ objects = <<>>
    /\ processEnv = EnvUndefined
    /\ rq = [r \in Reqs |-> NoRequest]
    /\ registered = [r \in Reqs |-> NoHistory]
    /\ runs = [r \in Reqs |-> NoHistory]
    /\ \E h \in Hours, m \in Months : probe = [NoProbe EXCEPT !.hour = h, !.month = m]
    /\ eh = NoError
    /\ rt = [r \in Reqs |-> NoRoute]
    /\ db = NoDb
    /\ store = NoStore
    /\ hs = NoCall

NextGreeting == Resolve

SpecGreeting == InitGreeting /\ [][NextGreeting]_vars

(***************************************************************************)
(* The composer on its own: one request, every upstream input.             *)
(***************************************************************************)
Years == {2025}
\* the hours on both sides of each boundary of the time-of-day bands
BoundaryHours == {0, 11, 12, 17, 18, 23}
RandomOutcomes == 0 .. RandSteps - 1

EnvValues ==
    {EnvUndefined, EnvString(<<>>), EnvString(<<"D", "E", "V">>),
     EnvString(<<"P", "r", "o", "d", "u", "c", "t", "i", "o", "n">>)}

Sessions == {NoSession, Session(Undefined), Session(UserObject)}

EmptyObject == [x \in {} |-> ""]
QueryKeys == {"sort", "x"}
QueryValues == {"name", "1"}
QueryMaps == {EmptyObject, [x \in {"sort"} |-> "name"],
              [x \in {"sort", "x"} |-> IF x = "sort" THEN "name" ELSE "1"]}

InitLocals ==
    /\ arrays = <<>>
    /\ objects = <<>>
    /\ processEnv \in EnvValues
    /\ rq = [r \in Reqs |-> NoRequest]
    /\ registered = [r \in Reqs |-> NoHistory]
    /\ runs = [r \in Reqs |-> NoHistory]
    /\ probe = NoProbe
    /\ eh = NoError
    /\ rt = [r \in Reqs |-> NoRoute]
    /\ db = NoDb
    /\ store = NoStore
    /\ hs = NoCall

NextLocals ==
    \/ \E s \in Sessions, q \in QueryMaps : Arrive(1, <<>>, s, q)
    \/ \E y \in Years, h \in BoundaryHours, m \in Months, k \in RandomOutcomes :
           Compose(1, y, h, m, k)
    \/ \E key \in QueryKeys, v \in QueryValues : SetQueryParam(1, key, v)

SpecLocals == InitLocals /\ [][NextLocals]_vars

(***************************************************************************)
(* The router's section middleware and the page render.                    *)
(***************************************************************************)
Sections ==
    << [prefix |-> "catalog",
        link |-> "<link rel=\"stylesheet\" href=\"/css/catalog.css\">"],
       [prefix |-> "faculty",
        link |-> "<link rel=\"stylesheet\" href=\"/css/faculty.css\">"],
       [prefix |-> "contact",
        link |-> "<link rel=\"stylesheet\" href=\"/css/contact.css\">"],
       [prefix |-> "register",
        link |-> "<link rel=\"stylesheet\" href=\"/css/registration.css\">"],
       [prefix |-> "login",
        link |-> "<link rel=\"stylesheet\" href=\"/css/login.css\">"] >>

\* (a plausible slip: the section middlewares mounted without a path)
MountedAnywhere(prefix, path) == TRUE

\* router.use(prefix, fn) runs fn when the path starts with the prefix
Mounted(prefix, path) == path # <<>> /\ path[1] = prefix

\* the five router.use middlewares from the i-th on, each ending in next()
RECURSIVE useSections(_, _, _, _)
useSections(arrs, locals, path, i) ==
    IF i > Len(Sections) THEN arrs
    ELSE useSections(IF Mounted(Sections[i].prefix, path)
                     THEN addStyle(arrs, locals, Sections[i].link, <<>>)
                     ELSE arrs,
                     locals, path, i + 1)

\* what the middlewares passed to addStyle for this path, in call order
SectionCalls(path) ==
    LET hit(sec) == Mounted(sec.prefix, path)
        hits == SelectSeq(Sections, hit)
    IN  [i \in 1 .. Len(hits) |-> Entry(hits[i].link, 0)]

SectionStyles(r) ==
    /\ rq[r].pc = "composed"
    /\ arrays' = useSections(arrays, rq[r].locals, rq[r].path, 1)
    /\ registered' = [registered EXCEPT ![r].styles = @ \o SectionCalls(rq[r].path)]
    /\ rq' = [rq EXCEPT ![r].pc = "styled"]
    /\ UNCHANGED <<objects, processEnv, runs, probe, eh, rt, db, store, hs>>

\* the handler renders a template, whose head calls renderStyles() and renderScripts()
RenderPage(r) ==
    /\ rq[r].pc = "styled"
    /\ LET st == renderStyles(arrays, rq[r].locals)
           sc == renderScripts(st.arrays, rq[r].locals)
       IN  /\ arrays' = sc.arrays
           /\ rq' = [rq EXCEPT ![r].pc = "rendered",
                               ![r].out = [styles |-> st.out, scripts |-> sc.out]]
    /\ UNCHANGED <<objects, processEnv, registered, runs, probe, eh, rt, db, store, hs>>

Paths == {<<>>, <<"catalog">>, <<"catalog", "random">>,
          <<"faculty", "jane-doe">>, <<"contact">>}

Init ==
    /\ arrays = <<>>
    /\ objects = <<>>
    /\ processEnv = EnvUndefined
    /\ rq = [r \in Reqs |-> NoRequest]
    /\ registered = [r \in Reqs |-> NoHistory]
    /\ runs = [r \in Reqs |-> NoHistory]
    /\ probe = NoProbe
    /\ eh = NoError
    /\ rt = [r \in Reqs |-> NoRoute]
    /\ db = NoDb
    /\ store = NoStore
    /\ hs = NoCall

Next ==
    \/ \E r \in Reqs, p \in Paths : Arrive(r, p, NoSession, EmptyObject)
    \/ \E r \in Reqs : Compose(r, 2025, 9, 10, 0)
    \/ \E r \in Reqs : SectionStyles(r)
    \/ \E r \in Reqs : RenderPage(r)

Spec == Init /\ [][Next]_vars

(***************************************************************************)
(* Claims about the greeting resolvers (checked under SpecGreeting).       *)
(***************************************************************************)
\* the message of each band of the seasonal greeting
BandMessage(month) ==
    IF month \in {11, 1} THEN WinterMsg
    ELSE IF month \in {2, 3, 4} THEN SpringMsg
    ELSE IF month \in {5, 6, 7} THEN SummerMsg
    ELSE FallMsg

\* C4: for every month other than 0 the seasonal resolver returns the message
\* of the month's band (winter 11 and 1, spring 2-4, summer 5-7, fall 8-10).
C4_SeasonalBands ==
    (probe.done /\ probe.month # 0) =>
        probe.seasonal = JSString(BandMessage(probe.month))

\* C6: the time-of-day greeting is total on 0..23: morning for 0-11, afternoon
\* for 12-17, evening for 18-23, and always one of the three strings.
C6_TimeOfDayBands ==
    probe.done =>
        /\ probe.time \in {"Good Morning!", "Good Afternoon!", "Good Evening!"}
        /\ (probe.hour \in 0 .. 11) => probe.time = "Good Morning!"
        /\ (probe.hour \in 12 .. 17) => probe.time = "Good Afternoon!"
        /\ (probe.hour \in 18 .. 23) => probe.time = "Good Evening!"

C6_Witness == probe.done /\ probe.hour = 12 /\ probe.time = "Good Afternoon!"

(***************************************************************************)
(* Claims about the composer (checked under SpecLocals).                   *)
(***************************************************************************)
Composed(r) == rq[r].pc = "composed"

\* C5: in January (month 0) the seasonal resolver returns undefined, and the
\* composer still finishes: it stores the paragraph-wrapped string and calls next.
C5_JanuaryGap ==
    \A r \in Reqs :
        (Composed(r) /\ rq[r].seen.month = 0) =>
            /\ rq[r].locals.seasonalGreeting = "<p>undefined</p>"
            /\ rq[r].nextCalls = 1

C5_Witness ==
    /\ Composed(1)
    /\ rq[1].seen.month = 0
    /\ rq[1].locals.seasonalGreeting = "<p>undefined</p>"

\* C9: isLoggedIn is true exactly when the request has a session and the
\* session carries a user.
C9_LoggedInIffUser ==
    \A r \in Reqs :
        Composed(r) =>
            (rq[r].locals.isLoggedIn <=>
                (rq[r].session.t = "object" /\ rq[r].session.user.t = "object"))

C9_Witness ==
    /\ Composed(1)
    /\ rq[1].session = Session(UserObject)
    /\ rq[1].locals.isLoggedIn

\* C10: queryParams has exactly the keys and values of the request's query,
\* and is a copy: a later write to queryParams leaves the request's query as
\* it arrived.
C10_QueryEcho ==
    \A r \in Reqs :
        Composed(r) =>
            /\ objects[rq[r].query] = rq[r].sent
            /\ ~rq[r].touched => objects[rq[r].locals.queryParams] = rq[r].sent

C10_Witness ==
    /\ Composed(1)
    /\ rq[1].touched
    /\ rq[1].sent = [x \in {"sort", "x"} |-> IF x = "sort" THEN "name" ELSE "1"]
    /\ objects[rq[1].locals.queryParams] # rq[1].sent
    /\ objects[rq[1].query] = rq[1].sent

(***************************************************************************)
(* Claims about requests in flight (checked under Spec).                   *)
(***************************************************************************)
\* C7: right after the composer installed the registry, before any later
\* stage registered anything, both collections of the request are empty.
C7_EmptyAfterInstall ==
    \A r \in Reqs :
        Composed(r) =>
            /\ rq[r].locals.styles # 0
            /\ rq[r].locals.scripts # 0
            /\ arrays[rq[r].locals.styles] = <<>>
            /\ arrays[rq[r].locals.scripts] = <<>>

\* an earlier request holds an entry when the composer has just run for a later one
C7_Witness ==
    /\ Composed(2)
    /\ rq[1].pc \in {"styled", "rendered"}
    /\ arrays[rq[1].locals.styles] # <<>>
    /\ arrays[rq[2].locals.styles] = <<>>

\* C8: whatever the interleaving of two requests' stages, the render output of
\* a request is made of the entries registered through its own addStyle and
\* addScript, and of nothing else.
C8_RequestIsolation ==
    \A r \in Reqs :
        rq[r].pc = "rendered" =>
            /\ rq[r].out.styles = ExpectedRender(registered[r].styles)
            /\ rq[r].out.scripts = ExpectedRender(registered[r].scripts)

\* two requests of different sections, both rendered
C8_Witness ==
    /\ rq[1].pc = "rendered"
    /\ rq[2].pc = "rendered"
    /\ rq[1].out.styles = "<link rel=\"stylesheet\" href=\"/css/catalog.css\">"
    /\ rq[2].out.styles = "<link rel=\"stylesheet\" href=\"/css/faculty.css\">"

(***************************************************************************)
(* More claims about the composer (checked under SpecLocals).              *)
(***************************************************************************)
ThemeIds == {"blue-theme", "green-theme", "red-theme", "yellow-theme",
             "purple-theme", "orange-theme"}

\* C11: the body theme class the composer stores is always one of the six
\* theme identifiers, and the random source can yield each of the six.
C11_ThemeInSet ==
    /\ \A r \in Reqs : Composed(r) => rq[r].locals.bodyClass \in ThemeIds
    /\ \A t \in ThemeIds : \E k \in RandomOutcomes : randomTheme(k) = t

\* the last theme of the list, which the largest random outcomes select
C11_Witness == Composed(1) /\ rq[1].locals.bodyClass = "orange-theme"

\* the environment name expected for each configured value
ExpectedEnv(env) ==
    IF env = EnvString(<<"D", "E", "V">>) THEN <<"d", "e", "v">>
    ELSE production

\* C12: the stored environment name is the lower-cased configured value when
\* one is set and "production" when it is absent (or the empty string); it is
\* never undefined or empty.
C12_EnvironmentName ==
    \A r \in Reqs :
        Composed(r) =>
            /\ rq[r].locals.NODE_ENV = ExpectedEnv(processEnv)
            /\ rq[r].locals.NODE_ENV # <<>>

C12_Witness ==
    /\ Composed(1)
    /\ processEnv = EnvString(<<"D", "E", "V">>)
    /\ rq[1].locals.NODE_ENV = <<"d", "e", "v">>

(***************************************************************************)
(* More claims about the registry (checked under SpecAssets).              *)
(***************************************************************************)
\* how many times entry e occurs in s
Occurrences(s, e) == Cardinality({i \in DOMAIN s : s[i] = e})

SameEntries(s, t) ==
    /\ Len(s) = Len(t)
    /\ \A i \in DOMAIN t : Occurrences(s, t[i]) = Occurrences(t, t[i])

\* C13: every addStyle/addScript call appends exactly one entry {content,
\* priority}, with priority 0 when the argument is omitted, also when the same
\* content is already there: a collection holds one entry per call made on it.
C13_OneEntryPerCall ==
    \A r \in Reqs :
        Composed(r) =>
            /\ SameEntries(arrays[rq[r].locals.styles], registered[r].styles)
            /\ SameEntries(arrays[rq[r].locals.scripts], registered[r].scripts)

\* the same content registered twice, both entries kept
C13_Witness ==
    /\ arrays[rq[1].locals.styles] = <<Entry("A", 0), Entry("A", 0)>>
    /\ arrays[rq[1].locals.scripts] = <<Entry("B", 3), Entry("B", 3)>>

\* C14: for every combination of upstream inputs the composer runs to its end:
\* it fills every field of res.locals, installs the registry and calls next
\* exactly once.
C14_ComposerCompletes ==
    \A r \in Reqs :
        /\ rq[r].pc = "arrived" =>
               \A y \in Years, h \in BoundaryHours, m \in Months, k \in RandomOutcomes :
                   ENABLED Compose(r, y, h, m, k)
        /\ Composed(r) =>
               /\ rq[r].locals.currentYear \in Years
               /\ rq[r].locals.NODE_ENV # <<>>
               /\ rq[r].locals.queryParams \in DOMAIN objects
               /\ rq[r].locals.greeting # ""
               /\ rq[r].locals.seasonalGreeting # ""
               /\ rq[r].locals.bodyClass # ""
               /\ rq[r].locals.isLoggedIn \in BOOLEAN
               /\ rq[r].locals.styles \in DOMAIN arrays
               /\ rq[r].locals.scripts \in DOMAIN arrays
               /\ rq[r].locals.styles # rq[r].locals.scripts
               /\ rq[r].nextCalls = 1

\* no session, no environment value, an empty query, a month without greeting
C14_Witness ==
    /\ Composed(1)
    /\ rq[1].session = NoSession
    /\ processEnv = EnvUndefined
    /\ rq[1].sent = EmptyObject
    /\ rq[1].seen.month = 0
    /\ rq[1].nextCalls = 1

(***************************************************************************)
(* Error handling: errorNotFound and globalErrorHandler.                   *)
(***************************************************************************)
\* err.status || 500
statusOf(err) == IF err.hasStatus /\ err.status # 0 THEN err.status ELSE 500

\* (a plausible slip: every client error gets the 404 page)
selectTemplateClientErrors(status) ==
    IF status >= 400 /\ status < 500 THEN "404" ELSE "500"

\* status === 404 ? '404' : '500'
selectTemplate(status) == IF status = 404 THEN "404" ELSE "500"

\* status === 404 ? 'Page Not Found' : 'Server Error'
selectTitle(status) == IF status = 404 THEN "Page Not Found" ELSE "Server Error"

\* (a plausible slip: the stack is passed to the template in every environment)
errorContextWithStack(err, status, nodeEnv) ==
    [title |-> selectTitle(status),
     error |-> IF nodeEnv = production THEN "An error occurred" ELSE err.message,
     stack |-> JSString(err.stack),
     NODE_ENV |-> nodeEnv]

\* the context object handed to the error template
errorContext(err, status, nodeEnv) ==
    [title |-> selectTitle(status),
     error |-> IF nodeEnv = production THEN "An error occurred" ELSE err.message,
     stack |-> IF nodeEnv = production THEN Null ELSE JSString(err.stack),
     NODE_ENV |-> nodeEnv]

\* what res.status(status).render(view, context) can do: send the page, throw
\* before anything was sent, or throw with the headers already sent
RenderOutcomes == {"sent", "throwsUnsent", "throwsSent"}

resRender(res, status, view, context, outcome) ==
    LET tried == [res EXCEPT !.statusCode = status, !.view = view,
                             !.context = context]
    IN  IF outcome = "throwsUnsent" THEN tried
        ELSE [tried EXCEPT !.headersSent = TRUE, !.writes = @ + 1,
                           !.finished = (outcome = "sent")]

\* (a plausible slip: the catch block sends the fallback without looking at
\* res.headersSent)
catchRenderUnguarded(res, status) ==
    [res EXCEPT !.statusCode = status, !.headersSent = TRUE,
                !.finished = TRUE, !.writes = @ + 1,
                !.body = "<h1>Error " \o ToString(status)
                             \o "</h1><p>An error occurred.</p>"]

\* the catch block: the plain fallback body, unless the headers are sent
catchRender(res, status) ==
    IF ~res.headersSent
    THEN [res EXCEPT !.statusCode = status, !.headersSent = TRUE,
                     !.finished = TRUE, !.writes = @ + 1,
                     !.body = "<h1>Error " \o ToString(status)
                                  \o "</h1><p>An error occurred.</p>"]
    ELSE res

\* globalErrorHandler(err, req, res, next): the response after it and whether
\* it called next(err); env is process.env.NODE_ENV as the module read it
globalErrorHandler(err, res, env, outcome) ==
    IF res.headersSent \/ res.finished
    THEN [res |-> res, forwarded |-> TRUE]
    ELSE LET status == statusOf(err)
             template == selectTemplate(status)
             context == errorContext(err, status, NodeEnv(env))
             tried == resRender(res, status, "errors/" \o template, context, outcome)
         IN  [res |-> IF outcome = "sent" THEN tried ELSE catchRender(tried, status),
              forwarded |-> FALSE]

\* errorNotFound(req, res, next): next(err) with a 404 error
errorNotFound == WithStatus(NewError("Page Not Found"), 404)

NotFound ==
    /\ eh.phase = "idle"
    /\ eh' = [eh EXCEPT !.phase = "raised", !.err = errorNotFound]
    /\ UNCHANGED <<arrays, objects, processEnv, rq, registered, runs, probe, rt, db, store, hs>>

\* a route handler passes an error to next(err), or throws one
Raise(err) ==
    /\ eh.phase = "idle"
    /\ eh' = [eh EXCEPT !.phase = "raised", !.err = err]
    /\ UNCHANGED <<arrays, objects, processEnv, rq, registered, runs, probe, rt, db, store, hs>>

HandleError(outcome) ==
    /\ eh.phase = "raised"
    /\ LET done == globalErrorHandler(eh.err, eh.res, processEnv, outcome)
       IN  eh' = [eh EXCEPT !.phase = "handled", !.res = done.res,
                            !.before = eh.res, !.outcome = outcome,
                            !.forwarded = IF done.forwarded THEN @ + 1 ELSE @]
    /\ UNCHANGED <<arrays, objects, processEnv, rq, registered, runs, probe, rt, db, store, hs>>

\* the errors the route handlers raise: a thrown Error without status, an
\* invalid id (400), a missing record (404), and a status of 0
RaisedErrors ==
    {NewError("Synchronous error: something exploded!"),
     WithStatus(NewError("Invalid course ID: X"), 400),
     WithStatus(NewError("Course CS101 not found"), 404),
     WithStatus(NewError("Faculty member jane-doe not found"), 404),
     WithStatus(NewError("database down"), 500),
     WithStatus(NewError("odd"), 0)}

InitErrors ==
    /\ arrays = <<>>
    /\ objects = <<>>
    /\ processEnv \in EnvValues
    /\ rq = [r \in Reqs |-> NoRequest]
    /\ registered = [r \in Reqs |-> NoHistory]
    /\ runs = [r \in Reqs |-> NoHistory]
    /\ probe = NoProbe
    /\ \E h \in BOOLEAN, f \in BOOLEAN :
           eh = [NoError EXCEPT !.res.headersSent = h, !.res.finished = f]
    /\ rt = [r \in Reqs |-> NoRoute]
    /\ db = NoDb
    /\ store = NoStore
    /\ hs = NoCall

NextErrors ==
    \/ NotFound
    \/ \E err \in RaisedErrors : Raise(err)
    \/ \E o \in RenderOutcomes : HandleError(o)

SpecErrors == InitErrors /\ [][NextErrors]_vars

(***************************************************************************)
(* Claims about the error handler (checked under SpecErrors).              *)
(***************************************************************************)
Handled == eh.phase = "handled"
Started == eh.before.headersSent \/ eh.before.finished

\* C19: the handler picks the page from the status alone: the status is the
\* error's, or 500 when it has none; the 404 page titled 'Page Not Found' is
\* used exactly when the status is 404, the 500 page titled 'Server Error'
\* for every other status, 400 included.
C19_TemplateFromStatus ==
    (Handled /\ ~Started) =>
        /\ eh.res.statusCode = (IF eh.err.hasStatus /\ eh.err.status # 0
                                THEN eh.err.status ELSE 500)
        /\ IF eh.res.statusCode = 404
           THEN eh.res.view = "errors/404" /\ eh.res.context.title = "Page Not Found"
           ELSE eh.res.view = "errors/500" /\ eh.res.context.title = "Server Error"

C19_Witness ==
    /\ Handled
    /\ eh.err.hasStatus
    /\ eh.err.status = 400
    /\ eh.res.statusCode = 400
    /\ eh.res.view = "errors/500"
    /\ eh.outcome = "sent"

\* C20: a response that has started is never written to, the error is only
\* passed on; otherwise exactly one response is produced: the rendered error
\* page, or the plain fallback body when rendering throws before the headers
\* are sent.
C20_OneResponse ==
    Handled =>
        IF Started
        THEN eh.forwarded = 1 /\ eh.res = eh.before
        ELSE /\ eh.forwarded = 0
             /\ eh.res.writes = 1
             /\ (eh.res.body # "") <=> (eh.outcome = "throwsUnsent")
             /\ (eh.outcome = "throwsUnsent") =>
                    eh.res.body = "<h1>Error " \o ToString(eh.res.statusCode)
                                      \o "</h1><p>An error occurred.</p>"

\* rendering threw with the headers already sent: no fallback is written
C20_Witness ==
    /\ Handled
    /\ ~Started
    /\ eh.outcome = "throwsSent"
    /\ eh.res.writes = 1
    /\ eh.res.body = ""

(***************************************************************************)
(* The application's middleware stack and the router's layers.             *)
(***************************************************************************)
\* (a plausible slip: the router mounted ahead of the composer)
appStackRouterFirst ==
    <<"router", "addLocalVariables", "errorNotFound", "globalErrorHandler">>

\* (a plausible slip: no catch-all 404 stage after the router)
appStackNoCatchAll == <<"addLocalVariables", "router", "globalErrorHandler">>

\* app.use(...) in registration order: composer, router, catch-all 404,
\* error handler
appStack ==
    <<"addLocalVariables", "router", "errorNotFound", "globalErrorHandler">>

Param == ":"

Use(prefix, link) == [kind |-> "use", pattern |-> <<prefix>>, name |-> link]
Get(pattern, name) == [kind |-> "get", pattern |-> pattern, name |-> name]

\* the routes, in registration order; the routers mounted on /contact,
\* /register and /login appear as their GET routes
Routes ==
    << Get(<<>>, "homePage"),
       Get(<<"about">>, "aboutPage"),
       Get(<<"catalog">>, "catalogPage"),
       Get(<<"catalog", "random">>, "randomCoursePage"),
       Get(<<"catalog", Param>>, "courseDetailPage"),
       Get(<<"departments">>, "departmentsPage"),
       Get(<<"demo">>, "demoPage"),
       Get(<<"test-error">>, "testErrorPage"),
       Get(<<"faculty">>, "facultyListPage"),
       Get(<<"faculty", Param>>, "facultyDetailPage"),
       Get(<<"error-sync">>, "errorSync"),
       Get(<<"contact">>, "contactRoutes"),
       Get(<<"register">>, "showRegistrationForm"),
       Get(<<"register", "list">>, "showAllUsers"),
       Get(<<"login">>, "showLoginForm"),
       Get(<<"logout">>, "processLogout"),
       Get(<<"dashboard">>, "showDashboard") >>

SectionLayers ==
    [i \in 1 .. Len(Sections) |-> Use(Sections[i].prefix, Sections[i].link)]

\* (a plausible slip: the section styles registered after the routes)
LayersRoutesFirst == Routes \o SectionLayers

\* the router's layers, in registration order
Layers == SectionLayers \o Routes

\* a route path matches segment by segment, a parameter matching any segment
Matches(pattern, path) ==
    /\ Len(pattern) = Len(path)
    /\ \A i \in 1 .. Len(pattern) : pattern[i] \in {Param, path[i]}

LayerMatches(layer, path) ==
    IF layer.kind = "use" THEN Mounted(layer.pattern[1], path)
    ELSE Matches(layer.pattern, path)

\* how each controller can end: it renders, redirects, or passes an error on
catalogOutcomes(h) ==
    CASE h = "catalogPage" -> {"render"}
      [] h = "randomCoursePage" -> {"redirect"}
      [] h = "courseDetailPage" -> {"render", "next(err)"}
      [] h = "departmentsPage" -> {"render", "next(err)"}
      [] OTHER -> {}

facultyOutcomes(h) ==
    CASE h = "facultyListPage" -> {"render"}
      [] h = "facultyDetailPage" -> {"render", "next(err)"}
      [] OTHER -> {}

formOutcomes(h) ==
    CASE h \in {"showLoginForm", "showRegistrationForm", "showAllUsers",
                "showDashboard"} -> {"render"}
      [] h = "processLogout" -> {"redirect"}
      [] OTHER -> {}

\* the pages of controllers/index.js and the contact form
indexOutcomes(h) ==
    CASE h \in {"homePage", "aboutPage", "demoPage", "contactRoutes"} -> {"render"}
      [] h = "testErrorPage" -> {"next(err)"}
      [] OTHER -> {}

\* requireLogin lets a logged-in request through and redirects any other
requireLogin(session, outcomes) ==
    IF isLoggedIn(session) THEN outcomes ELSE {"redirect"}

handlerOutcomes(h, session) ==
    CASE h = "errorSync" -> {"throw"}
      [] h = "showDashboard" -> requireLogin(session, formOutcomes(h))
      [] OTHER -> catalogOutcomes(h) \cup facultyOutcomes(h)
                     \cup formOutcomes(h) \cup indexOutcomes(h)

\* the error a handler passes to next(err) or throws
raisedBy(h, path) ==
    CASE h = "courseDetailPage" ->
             WithStatus(NewError("Course " \o path[2] \o " not found"), 404)
      [] h = "facultyDetailPage" ->
             WithStatus(NewError("Faculty member " \o path[2] \o " not found"), 404)
      [] h = "errorSync" -> NewError("Synchronous error: something exploded!")
      [] OTHER -> NewError("failed")

\* calling res.addStyle or renderStyles on locals the composer never filled
TypeError == NewError("TypeError: res.addStyle is not a function")

Installed(locals) == locals.styles # 0

\* res.render(view, ...) and res.redirect(url) of a route handler
respond(res, outcome, h) ==
    [res EXCEPT !.headersSent = TRUE, !.finished = TRUE, !.writes = @ + 1,
                !.statusCode = IF outcome = "redirect" THEN 302 ELSE @,
                !.view = IF outcome = "render" THEN h ELSE @]

(***************************************************************************)
(* One request walking the stack: express calls the stages in order, a     *)
(* stage either responds or calls next; with an error pending only error   *)
(* handlers run.                                                           *)
(***************************************************************************)
Active(r) ==
    /\ rq[r].pc \in {"arrived", "composed"}
    /\ rt[r].stage <= Len(appStack)
    /\ ~rt[r].res.finished

Stage(r) == appStack[rt[r].stage]

InRouter(r) == Active(r) /\ Stage(r) = "router" /\ ~rt[r].failed

Fail(route, err) ==
    [route EXCEPT !.failed = TRUE, !.err = err, !.stage = @ + 1]

\* app.use(addLocalVariables): the composer runs and calls next()
RunComposer(r, year, hour, month, k) ==
    /\ Active(r)
    /\ Stage(r) = "addLocalVariables"
    /\ ~rt[r].failed
    /\ LET done == addLocalVariables(arrays, objects, processEnv, rq[r],
                                     rq[r].locals, year, hour, month, k)
       IN  /\ arrays' = done.arrays
           /\ objects' = done.objects
           /\ rq' = [rq EXCEPT ![r].locals = done.locals,
                               ![r].pc = "composed",
                               ![r].nextCalls = @ + 1,
                               ![r].seen = [month |-> month]]
    /\ rt' = [rt EXCEPT ![r].stage = @ + 1,
                        ![r].log = Append(@, "addLocalVariables")]
    /\ UNCHANGED <<processEnv, registered, runs, probe, eh, db, store, hs>>

\* the router passes over a layer that does not match the path
SkipLayer(r) ==
    /\ InRouter(r)
    /\ rt[r].layer <= Len(Layers)
    /\ ~LayerMatches(Layers[rt[r].layer], rq[r].path)
    /\ rt' = [rt EXCEPT ![r].layer = @ + 1]
    /\ UNCHANGED <<arrays, objects, processEnv, rq, registered, runs, probe, eh, db, store, hs>>

\* router.use(prefix, ...): res.addStyle(link); next()
UseSection(r) ==
    /\ InRouter(r)
    /\ rt[r].layer <= Len(Layers)
    /\ LET layer == Layers[rt[r].layer]
       IN  /\ layer.kind = "use"
           /\ LayerMatches(layer, rq[r].path)
           /\ IF Installed(rq[r].locals)
              THEN /\ arrays' = addStyle(arrays, rq[r].locals, layer.name, <<>>)
                   /\ registered' = [registered EXCEPT
                          ![r].styles = Append(@, Entry(layer.name, 0))]
                   /\ rt' = [rt EXCEPT
                          ![r].layer = @ + 1,
                          ![r].log = Append(@, "style:" \o layer.pattern[1])]
              ELSE /\ rt' = [rt EXCEPT ![r] = Fail(@, TypeError)]
                   /\ UNCHANGED <<arrays, registered>>
    /\ UNCHANGED <<objects, processEnv, rq, runs, probe, eh, db, store, hs>>

\* router.get(path, handler): the terminal handler of the path runs
RouteHandler(r, outcome) ==
    /\ InRouter(r)
    /\ rt[r].layer <= Len(Layers)
    /\ LET layer == Layers[rt[r].layer]
           h == layer.name
           ran == [rt[r] EXCEPT
                      !.handler = h,
                      !.log = Append(@, "handler:" \o h),
                      !.atHandler = IF Installed(rq[r].locals)
                                    THEN arrays[rq[r].locals.styles] ELSE <<>>]
       IN  /\ layer.kind = "get"
           /\ LayerMatches(layer, rq[r].path)
           /\ outcome \in handlerOutcomes(h, rq[r].session)
           /\ CASE outcome = "render" /\ Installed(rq[r].locals) ->
                     LET st == renderStyles(arrays, rq[r].locals)
                         sc == renderScripts(st.arrays, rq[r].locals)
                     IN  /\ arrays' = sc.arrays
                         /\ rq' = [rq EXCEPT ![r].out =
                                       [styles |-> st.out, scripts |-> sc.out]]
                         /\ rt' = [rt EXCEPT ![r] =
                                [ran EXCEPT !.res = respond(@, outcome, h),
                                            !.log = Append(@, "render")]]
                [] outcome = "render" /\ ~Installed(rq[r].locals) ->
                     /\ rt' = [rt EXCEPT ![r] = Fail(ran, TypeError)]
                     /\ UNCHANGED <<arrays, rq>>
                [] outcome = "redirect" ->
                     /\ rt' = [rt EXCEPT ![r] =
                                [ran EXCEPT !.res = respond(@, outcome, h),
                                            !.log = Append(@, "redirect")]]
                     /\ UNCHANGED <<arrays, rq>>
                [] OTHER ->
                     /\ rt' = [rt EXCEPT ![r] = Fail(ran, raisedBy(h, rq[r].path))]
                     /\ UNCHANGED <<arrays, rq>>
    /\ UNCHANGED <<objects, processEnv, registered, runs, probe, eh, db, store, hs>>

\* no layer responded: the router calls next()
RouterFallthrough(r) ==
    /\ InRouter(r)
    /\ rt[r].layer > Len(Layers)
    /\ rt' = [rt EXCEPT ![r].stage = @ + 1]
    /\ UNCHANGED <<arrays, objects, processEnv, rq, registered, runs, probe, eh, db, store, hs>>

\* app.use(errorNotFound)
RunNotFound(r) ==
    /\ Active(r)
    /\ Stage(r) = "errorNotFound"
    /\ ~rt[r].failed
    /\ rt' = [rt EXCEPT ![r] = [Fail(@, errorNotFound) EXCEPT
                                   !.log = Append(@, "errorNotFound")]]
    /\ UNCHANGED <<arrays, objects, processEnv, rq, registered, runs, probe, eh, db, store, hs>>

\* app.use(globalErrorHandler)
RunErrorHandler(r, outcome) ==
    /\ Active(r)
    /\ Stage(r) = "globalErrorHandler"
    /\ rt[r].failed
    /\ LET done == globalErrorHandler(rt[r].err, rt[r].res, processEnv, outcome)
       IN  rt' = [rt EXCEPT ![r].res = done.res,
                            ![r].failed = done.forwarded,
                            ![r].stage = @ + 1,
                            ![r].log = Append(@, "globalErrorHandler")]
    /\ UNCHANGED <<arrays, objects, processEnv, rq, registered, runs, probe, eh, db, store, hs>>

\* express passes over middleware while an error is pending, and over error
\* handlers while none is
SkipStage(r) ==
    /\ Active(r)
    /\ rt[r].failed <=> (Stage(r) # "globalErrorHandler")
    /\ rt' = [rt EXCEPT ![r].stage = @ + 1]
    /\ UNCHANGED <<arrays, objects, processEnv, rq, registered, runs, probe, eh, db, store, hs>>

RouterPaths ==
    {<<>>, <<"about">>, <<"catalog">>, <<"catalog", "random">>,
     <<"catalog", "cs101">>, <<"catalog", "cs101", "x">>, <<"departments">>,
     <<"demo">>, <<"test-error">>, <<"faculty">>, <<"faculty", "jane-doe">>,
     <<"error-sync">>, <<"contact">>, <<"register">>, <<"register", "list">>,
     <<"login">>, <<"login", "x">>, <<"logout">>, <<"dashboard">>, <<"nowhere">>}

InitRouter ==
    /\ arrays = <<>>
    /\ objects = <<>>
    /\ processEnv = EnvUndefined
    /\ rq = [r \in Reqs |-> NoRequest]
    /\ registered = [r \in Reqs |-> NoHistory]
    /\ runs = [r \in Reqs |-> NoHistory]
    /\ probe = NoProbe
    /\ eh = NoError
    /\ rt = [r \in Reqs |-> NoRoute]
    /\ db = NoDb
    /\ store = NoStore
    /\ hs = NoCall

NextRouter ==
    \/ \E p \in RouterPaths, s \in Sessions : Arrive(1, p, s, EmptyObject)
    \/ \E r \in Reqs : RunComposer(r, 2025, 9, 10, 0)
    \/ \E r \in Reqs : SkipLayer(r)
    \/ \E r \in Reqs : UseSection(r)
    \/ \E r \in Reqs, o \in {"render", "redirect", "next(err)", "throw"} :
           RouteHandler(r, o)
    \/ \E r \in Reqs : RouterFallthrough(r)
    \/ \E r \in Reqs : RunNotFound(r)
    \/ \E r \in Reqs, o \in RenderOutcomes : RunErrorHandler(r, o)
    \/ \E r \in Reqs : SkipStage(r)

SpecRouter == InitRouter /\ [][NextRouter]_vars

(***************************************************************************)
(* Claims about the stack and the router (checked under SpecRouter).       *)
(***************************************************************************)
Done(r) ==
    /\ rq[r].pc # "idle"
    /\ rt[r].stage > Len(appStack) \/ rt[r].res.finished

Count(log, e) == Cardinality({i \in DOMAIN log : log[i] = e})

\* the first position of e in log, 0 when it is not there
Pos(log, e) ==
    IF \E i \in DOMAIN log : log[i] = e
    THEN CHOOSE i \in DOMAIN log : log[i] = e /\ \A j \in 1 .. i - 1 : log[j] # e
    ELSE 0

\* what route-specific logic leaves in the log
RouteEvents ==
    {"style:" \o Sections[i].prefix : i \in DOMAIN Sections}
        \cup {"handler:" \o Routes[i].name : i \in DOMAIN Routes}
        \cup {"render", "redirect"}

\* the sections a path lies under
SectionsOf(path) ==
    {i \in DOMAIN Sections : Len(path) >= 1 /\ path[1] = Sections[i].prefix}

C16_SectionBetween ==
    \A r \in Reqs :
        \A i \in SectionsOf(rq[r].path) :
            rt[r].handler # "" =>
                LET log == rt[r].log
                    composed == Pos(log, "addLocalVariables")
                    styled == Pos(log, "style:" \o Sections[i].prefix)
                    handled == Pos(log, "handler:" \o rt[r].handler)
                IN  /\ 0 < composed
                    /\ composed < styled
                    /\ styled < handled
                    /\ \E k \in DOMAIN rt[r].atHandler :
                           rt[r].atHandler[k].content = Sections[i].link
                    /\ Count(log, "render") = 1 =>
                           rq[r].out.styles = Sections[i].link

C16_Witness ==
    \E r \in Reqs :
        /\ rq[r].path = <<"faculty", "jane-doe">>
        /\ rt[r].handler = "facultyDetailPage"
        /\ Count(rt[r].log, "render") = 1
        /\ rq[r].out.styles = Sections[2].link

C18_OneSectionStyle ==
    \A r \in Reqs :
        rt[r].handler # "" =>
            /\ Cardinality(SectionsOf(rq[r].path)) <= 1
            /\ SectionsOf(rq[r].path) = {} => rt[r].atHandler = <<>>
            /\ \A i \in SectionsOf(rq[r].path) :
                   rt[r].atHandler = <<Entry(Sections[i].link, 0)>>

C18_Witness ==
    \E r \in Reqs :
        /\ rt[r].handler = "showLoginForm"
        /\ rq[r].path = <<"login">>
        /\ rt[r].atHandler =
               <<Entry("<link rel=\"stylesheet\" href=\"/css/login.css\">", 0)>>

(***************************************************************************)
(* Claims about what the error page shows (checked under SpecErrors).      *)
(***************************************************************************)
\* C21: when the environment name is 'production' (unset included), the
\* context handed to the error template says 'An error occurred' with a null
\* stack, and any two errors of the same status get the same context:
\* neither the message nor the stack of the error reaches the page.
C21_ProductionHidesError ==
    ExpectedEnv(processEnv) = production =>
        /\ (Handled /\ ~Started) =>
               /\ eh.res.context.error = "An error occurred"
               /\ eh.res.context.stack = Null
               /\ eh.res.context.NODE_ENV = production
        /\ \A e1 \in RaisedErrors \cup {errorNotFound}, e2 \in RaisedErrors :
               \A o \in RenderOutcomes :
                   statusOf(e1) = statusOf(e2) =>
                       globalErrorHandler(e1, OpenResponse, processEnv, o).res
                           = globalErrorHandler(e2, OpenResponse, processEnv, o).res

\* a 404 with its own message, handled with NODE_ENV 'Production'
C21_Witness ==
    /\ Handled
    /\ ~Started
    /\ processEnv = EnvString(<<"P", "r", "o", "d", "u", "c", "t", "i", "o", "n">>)
    /\ eh.err.message = "Course CS101 not found"
    /\ eh.res.statusCode = 404
    /\ eh.res.context.error = "An error occurred"
    /\ eh.res.context.stack = Null

(***************************************************************************)
(* The faculty table, its lookup, and facultyDetailPage.                   *)
(***************************************************************************)
FacultyRow(id, first, last, slug) ==
    [id |-> id, first_name |-> first, last_name |-> last, office |-> "STC 392",
     phone |-> "208-496-1234", email |-> slug \o "@byui.edu",
     title |-> "Professor", gender |-> "x", slug |-> slug,
     department_name |-> "Computer Science", department_code |-> "CS"]

\* obj[key]: undefined when the object has no such property
Prop(obj, key) == IF key \in DOMAIN obj THEN JSString(obj[key]) ELSE Undefined

\* getFaculty(identifier, identifierType): {} when no row matches, else the
\* first row as a faculty object
getFaculty(table, identifier, identifierType) ==
    LET rows == IF identifierType = "slug"
                THEN {f \in table : f.slug = identifier}
                ELSE {f \in table : f.id = identifier}
    IN  IF rows = {} THEN EmptyObject
        ELSE LET faculty == CHOOSE f \in rows : TRUE
             IN  [id |-> faculty.id,
                  firstName |-> faculty.first_name,
                  lastName |-> faculty.last_name,
                  name |-> faculty.first_name \o " " \o faculty.last_name,
                  office |-> faculty.office,
                  phone |-> faculty.phone,
                  email |-> faculty.email,
                  department |-> faculty.department_name,
                  departmentCode |-> faculty.department_code,
                  title |-> faculty.title,
                  gender |-> faculty.gender,
                  slug |-> faculty.slug]

getFacultyBySlug(table, facultySlug) == getFaculty(table, facultySlug, "slug")

\* (a plausible slip: the test of the earlier controller, !facultyMember,
\* which an empty object never satisfies)
isEmptyFalsy(obj) == FALSE

\* Object.keys(obj).length === 0
isEmpty(obj) == DOMAIN obj = {}

\* facultyDetailPage(req, res, next) once the lookup has returned
facultyDetailPage(call, table, facultySlug) ==
    LET facultyMember == getFacultyBySlug(table, facultySlug)
    IN  IF isEmpty(facultyMember)
        THEN [call EXCEPT
                 !.phase = "done",
                 !.err = WithStatus(NewError("Faculty member " \o facultySlug
                                                 \o " not found"), 404),
                 !.events = Append(@, "next(err)")]
        ELSE [call EXCEPT
                 !.phase = "done",
                 !.view = "faculty/detail",
                 !.title = ToStr(Prop(facultyMember, "name")) \o " - Faculty Profile",
                 !.events = Append(@, "render")]

\* GET /faculty/:facultySlug; the awaited query either returns or rejects,
\* and a rejection ends the handler before it renders or calls next
FacultyDetail(facultySlug, queryReturns) ==
    /\ hs.phase = "idle"
    /\ LET call == [Call("facultyDetailPage", 0) EXCEPT !.input = <<facultySlug>>]
       IN  hs' = IF queryReturns
                 THEN facultyDetailPage(call, db.faculty, facultySlug)
                 ELSE [call EXCEPT !.phase = "rejected"]
    /\ UNCHANGED <<arrays, objects, processEnv, rq, registered, runs, probe,
                   eh, rt, db, store>>

FacultyRows ==
    {FacultyRow(1, "Jane", "Doe", "jane-doe"),
     FacultyRow(2, "Brother", "Jack", "brother-jack"),
     FacultyRow(3, "Sister", "Enkey", "sister-enkey"),
     FacultyRow(4, "", "", "blank")}

FacultySlugs == {"jane-doe", "brother-jack", "sister-enkey", "blank", "nobody"}

InitFaculty ==
    /\ arrays = <<>>
    /\ objects = <<>>
    /\ processEnv = EnvUndefined
    /\ rq = [r \in Reqs |-> NoRequest]
    /\ registered = [r \in Reqs |-> NoHistory]
    /\ runs = [r \in Reqs |-> NoHistory]
    /\ probe = NoProbe
    /\ eh = NoError
    /\ rt = [r \in Reqs |-> NoRoute]
    /\ \E table \in SUBSET FacultyRows : db = [NoDb EXCEPT !.faculty = table]
    /\ store = NoStore
    /\ hs = NoCall

NextFaculty ==
    \E slug \in FacultySlugs, returns \in BOOLEAN : FacultyDetail(slug, returns)

SpecFaculty == InitFaculty /\ [][NextFaculty]_vars

\* C22: for every slug whose lookup returns, facultyDetailPage does one of two
\* things: with no row of that slug it passes one error of status 404 to next
\* and renders nothing; otherwise it renders faculty/detail once, titled with
\* the member's name, and passes no error.
C22_NotFoundOrRender ==
    hs.phase = "done" =>
        LET slug == hs.input[1]
            found == {f \in db.faculty : f.slug = slug}
        IN  IF found = {}
            THEN /\ hs.events = <<"next(err)">>
                 /\ hs.view = ""
                 /\ hs.err.hasStatus
                 /\ hs.err.status = 404
                 /\ hs.err.message = "Faculty member " \o slug \o " not found"
            ELSE /\ hs.events = <<"render">>
                 /\ hs.view = "faculty/detail"
                 /\ \E f \in found :
                        hs.title = f.first_name \o " " \o f.last_name
                                       \o " - Faculty Profile"
                 /\ ~hs.err.hasStatus

C22_Witness ==
    /\ hs.phase = "done"
    /\ hs.input = <<"nobody">>
    /\ db.faculty # {}
    /\ hs.events = <<"next(err)">>
    /\ hs.err.status = 404

(***************************************************************************)
(* Users, the login form and its validation.                               *)
(***************************************************************************)
MaxSessions == 2
MaxUsers == 2

\* bcrypt.hash(password, 10): never the plaintext, equal for equal passwords
Hash(password) == "$2b$10$" \o password

User(name, email, hashedPassword) ==
    [name |-> name, email |-> email, password |-> hashedPassword]

\* isEmail() on the addresses the forms are given
isEmail(email) == email \in {"alice@x.org", "Alice@x.org", "bob@x.org"}

\* normalizeEmail(): the canonical lower-case form
normalizeEmail(email) == IF email = "Alice@x.org" THEN "alice@x.org" ELSE email

LoginBody(email, password) == [email |-> email, password |-> password]

\* loginValidation followed by validationResult(req): the messages and the
\* sanitized body
loginValidation(body) ==
    [errors |-> (IF isEmail(body.email) THEN <<>>
                 ELSE <<"Please provide a valid email address">>)
                \o (IF Len(body.password) >= 8 THEN <<>>
                    ELSE <<"Password is required">>),
     body |-> [body EXCEPT !.email = normalizeEmail(@)]]

\* a user object: a row, or what a session holds of it
UserValue(props) == [t |-> "object", v |-> "", props |-> props]

\* findUserByEmail(email): the row of that email, undefined without one
findUserByEmail(users, email) ==
    IF \E i \in DOMAIN users : users[i].email = email
    THEN UserValue(users[CHOOSE i \in DOMAIN users :
                             /\ users[i].email = email
                             /\ \A j \in 1 .. i - 1 : users[j].email # email])
    ELSE Undefined

\* verifyPassword(password, hash): bcrypt.compare
verifyPassword(password, hash) == Hash(password) = hash

\* (a plausible slip: the user row goes to the session as it is)
safeUserKeepsPassword(user) == user

\* const safeUser = { ...user }; delete safeUser.password
safeUser(user) == [k \in DOMAIN user \ {"password"} |-> user[k]]

\* processLogin(req, res): the call's events and the session afterwards;
\* lookupThrows says the user lookup or the comparison threw
processLogin(call, session, users, rawBody, lookupThrows) ==
    LET checked == loginValidation(rawBody)
        email == checked.body.email
        password == checked.body.password
        user == findUserByEmail(users, email)
        fail(kind, n) ==
            [call |-> [call EXCEPT !.phase = "done",
                          !.events = @ \o [i \in 1 .. n |-> "flash:" \o kind]
                                       \o <<"redirect:/login">>],
             session |-> session]
    IN  IF checked.errors # <<>> THEN fail("error", Len(checked.errors))
        ELSE IF lookupThrows THEN fail("error", 1)
        ELSE IF ~Truthy(user) THEN fail("error", 1)
        ELSE IF ~verifyPassword(password, user.props.password) THEN fail("error", 1)
        ELSE [call |-> [call EXCEPT !.phase = "done",
                           !.events = @ \o <<"flash:success", "redirect:/dashboard">>],
              session |-> [session EXCEPT
                              !.user = UserValue(safeUser(user.props))]]

\* showDashboard(req, res): drops a password found on the session's user,
\* then renders the dashboard
showDashboard(call, session) ==
    [call |-> [call EXCEPT !.phase = "done", !.view = "dashboard",
                           !.title = "Dashboard",
                           !.events = Append(@, "render")],
     session |-> IF Truthy(session.user) /\ "password" \in DOMAIN session.user.props
                 THEN [session EXCEPT !.user.props = safeUser(@)]
                 ELSE session]

(***************************************************************************)
(* The registration form.                                                  *)
(***************************************************************************)
RegistrationBody(name, email, emailConfirm, password, passwordConfirm) ==
    [name |-> name, email |-> email, emailConfirm |-> emailConfirm,
     password |-> password, passwordConfirm |-> passwordConfirm]

\* matches(/[0-9]/) and matches(/[!@#$%^&*]/) on the passwords the forms are given
hasDigit(password) == password \in {"secret12", "Passw0rd!", "Hunter2!!"}
hasSpecial(password) == password \in {"Passw0rd!", "Hunter2!!", "password!"}

\* registrationValidation followed by validationResult(req); the chains run in
\* order, so emailConfirm is compared with the normalized email
registrationValidation(body) ==
    LET email == normalizeEmail(body.email)
        msg(ok, text) == IF ok THEN <<>> ELSE <<text>>
    IN  [errors |->
             msg(Len(body.name) >= 2, "Name must be at least 2 characters")
             \o msg(isEmail(body.email), "Must be a valid email address")
             \o msg(body.emailConfirm = email, "Email addresses must match")
             \o msg(Len(body.password) >= 8, "Invalid value")
             \o msg(hasDigit(body.password),
                    "Password must contain at least one number")
             \o msg(hasSpecial(body.password),
                    "Password must contain at least one special character")
             \o msg(body.passwordConfirm = body.password, "Passwords must match"),
         body |-> [body EXCEPT !.email = email]]

\* emailExists(email)
emailExists(users, email) == \E i \in DOMAIN users : users[i].email = email

\* saveUser(name, email, hashedPassword)
saveUser(users, name, email, hashedPassword) ==
    Append(users, User(name, email, hashedPassword))

\* (a plausible slip: the submitted password is saved)
hashedPasswordPlain(password) == password

\* const hashedPassword = await bcrypt.hash(password, 10)
hashedPassword(password) == Hash(password)

\* where the awaited calls of the try block can throw
ThrowPoints == {"none", "emailExists", "hash", "saveUser"}

\* processRegistration(req, res) up to its return: on success it has called
\* req.session.save and waits for the callback
processRegistration(call, users, rawBody, throwsAt) ==
    LET checked == registrationValidation(rawBody)
        name == checked.body.name
        email == checked.body.email
        password == checked.body.password
        back(kind, n) ==
            [call |-> [call EXCEPT !.phase = "done",
                          !.events = @ \o [i \in 1 .. n |-> "flash:" \o kind]
                                       \o <<"redirect:/register">>],
             users |-> users]
    IN  IF checked.errors # <<>> THEN back("error", Len(checked.errors))
        ELSE IF throwsAt = "emailExists" THEN back("error", 1)
        ELSE IF emailExists(users, email) = TRUE THEN back("warning", 1)
        ELSE IF throwsAt \in {"hash", "saveUser"} THEN back("error", 1)
        ELSE [call |-> [call EXCEPT !.phase = "saving",
                           !.events = @ \o <<"saveUser", "flash:success",
                                             "session.save">>],
              users |-> saveUser(users, name, email, hashedPassword(password))]

\* the callback of req.session.save: res.redirect('/login')
sessionSaved(call) ==
    [call EXCEPT !.phase = "done",
                 !.events = @ \o <<"callback", "redirect:/login">>]

(***************************************************************************)
(* Logout.                                                                 *)
(***************************************************************************)
\* processLogout(req, res) up to its return: without a session it redirects,
\* with one it calls req.session.destroy and waits for the callback
processLogout(call, hasSession) ==
    IF ~hasSession
    THEN [call EXCEPT !.phase = "done", !.events = Append(@, "redirect:/")]
    ELSE [call EXCEPT !.phase = "destroying", !.events = Append(@, "destroy")]

\* (a plausible slip: the cookie is cleared only when destroy succeeded)
destroyedKeepsCookieOnError(call, err) ==
    [call EXCEPT !.phase = "done",
                 !.events = @ \o (IF err THEN <<"callback", "redirect:/">>
                                  ELSE <<"callback", "clearCookie", "redirect:/">>)]

\* the callback of req.session.destroy: both branches clear the cookie and
\* redirect
destroyed(call, err) ==
    [call EXCEPT !.phase = "done",
                 !.events = @ \o <<"callback", "clearCookie", "redirect:/">>]

(***************************************************************************)
(* One browser using the site: each request loads its session from the     *)
(* cookie, then the handler runs; a handler waiting for a session callback *)
(* finishes before the browser's next request.                             *)
(***************************************************************************)
Ready == hs.phase \in {"idle", "done"}

Stored(st, sid) == sid \in DOMAIN st.sessions /\ st.sessions[sid].t = "object"

\* the session middleware can serve the request: the cookie names a stored
\* session, or there is room for a new one
CanLoad == Stored(store, store.cookie) \/ Len(store.sessions) < MaxSessions

\* req.session for the request: the stored session of the cookie, or a new
\* empty session under a new cookie
loadSession(st) ==
    IF Stored(st, st.cookie) THEN st
    ELSE [st EXCEPT !.sessions = Append(@, Session(Undefined)),
                    !.cookie = Len(st.sessions) + 1,
                    !.loggedIn = Append(@, FALSE)]

\* (a plausible slip: the cookie is cleared under another name or path and
\* stays in the browser)
clearCookieNoop(cookie) == cookie

\* res.clearCookie('connect.sid')
clearCookie(cookie) == 0

\* any GET: the composer computes res.locals.isLoggedIn from req.session
Visit ==
    /\ Ready
    /\ CanLoad
    /\ LET st == loadSession(store)
           sid == st.cookie
           flag == isLoggedIn(st.sessions[sid])
       IN  /\ store' = st
           /\ hs' = [Call("addLocalVariables", sid) EXCEPT
                        !.phase = "done", !.prev = hs.handler,
                        !.prevSid = hs.sid,
                        !.events = <<IF flag THEN "isLoggedIn:true"
                                     ELSE "isLoggedIn:false">>]
    /\ UNCHANGED <<arrays, objects, processEnv, rq, registered, runs, probe,
                   eh, rt, db>>

\* POST /login
SubmitLogin(body, lookupThrows) ==
    /\ Ready
    /\ CanLoad
    /\ LET st == loadSession(store)
           sid == st.cookie
           session == st.sessions[sid]
           done == processLogin([Call("processLogin", sid) EXCEPT
                                    !.login = body,
                                    !.throwsAt = IF lookupThrows THEN "lookup"
                                                 ELSE "none",
                                    !.sessionBefore = session],
                                session, db.users, body, lookupThrows)
           welcomed == done.call.events[Len(done.call.events)] = "redirect:/dashboard"
       IN  /\ store' = [st EXCEPT !.sessions[sid] = done.session,
                                  !.loggedIn[sid] = @ \/ welcomed]
           /\ hs' = done.call
    /\ UNCHANGED <<arrays, objects, processEnv, rq, registered, runs, probe,
                   eh, rt, db>>

\* GET /dashboard, behind requireLogin
Dashboard ==
    /\ Ready
    /\ Stored(store, store.cookie)
    /\ isLoggedIn(store.sessions[store.cookie])
    /\ LET sid == store.cookie
           session == store.sessions[sid]
           done == showDashboard([Call("showDashboard", sid) EXCEPT
                                     !.sessionBefore = session],
                                 session)
       IN  /\ store' = [store EXCEPT !.sessions[sid] = done.session]
           /\ hs' = done.call
    /\ UNCHANGED <<arrays, objects, processEnv, rq, registered, runs, probe,
                   eh, rt, db>>

\* POST /register
SubmitRegistration(body, throwsAt) ==
    /\ Ready
    /\ CanLoad
    /\ Len(db.users) < MaxUsers
    /\ LET st == loadSession(store)
           done == processRegistration(
                       [Call("processRegistration", st.cookie) EXCEPT
                           !.registration = body, !.throwsAt = throwsAt,
                           !.usersBefore = db.users],
                       db.users, body, throwsAt)
       IN  /\ store' = st
           /\ db' = [db EXCEPT !.users = done.users]
           /\ hs' = done.call
    /\ UNCHANGED <<arrays, objects, processEnv, rq, registered, runs, probe,
                   eh, rt>>

\* req.session.save calls back
SessionSaveCallback ==
    /\ hs.phase = "saving"
    /\ hs' = sessionSaved(hs)
    /\ UNCHANGED <<arrays, objects, processEnv, rq, registered, runs, probe,
                   eh, rt, db, store>>

\* GET /logout; hasSession is whether req.session is set
Logout(hasSession) ==
    /\ Ready
    /\ hasSession => CanLoad
    /\ LET st == IF hasSession THEN loadSession(store) ELSE store
       IN  /\ store' = st
           /\ hs' = processLogout(
                        [Call("processLogout", IF hasSession THEN st.cookie ELSE 0)
                             EXCEPT !.hadSession = hasSession],
                        hasSession)
    /\ UNCHANGED <<arrays, objects, processEnv, rq, registered, runs, probe,
                   eh, rt, db>>

\* req.session.destroy calls back, with an error when the store could not
\* remove the session
DestroyCallback(err) ==
    /\ hs.phase = "destroying"
    /\ LET done == destroyed(hs, err)
           cleared == \E i \in DOMAIN done.events : done.events[i] = "clearCookie"
       IN  /\ hs' = done
           /\ store' = [store EXCEPT
                  !.sessions[hs.sid] = IF err THEN @ ELSE NoSession,
                  !.loggedIn[hs.sid] = IF err THEN @ ELSE FALSE,
                  !.cookie = IF cleared THEN clearCookie(@) ELSE @]
    /\ UNCHANGED <<arrays, objects, processEnv, rq, registered, runs, probe,
                   eh, rt, db>>

Emails == {"alice@x.org", "Alice@x.org", "nobody"}
LoginPasswords == {"Passw0rd!", "Hunter2!!", "short"}
RegistrationPasswords == {"Passw0rd!", "secret12"}

LoginBodies == {LoginBody(e, p) : e \in Emails, p \in LoginPasswords}

RegistrationBodies ==
    {RegistrationBody(n, e, c, p, q) :
         n \in {"Al", "A"}, e \in {"alice@x.org", "Alice@x.org"},
         c \in {"alice@x.org"}, p \in RegistrationPasswords, q \in {"Passw0rd!"}}

\* the users table holds rows saved by earlier registrations
UserTables ==
    {<<>>, <<User("Bob", "bob@x.org", Hash("Hunter2!!"))>>,
     <<User("Al", "alice@x.org", Hash("Passw0rd!"))>>}

InitAuth ==
    /\ arrays = <<>>
    /\ objects = <<>>
    /\ processEnv = EnvUndefined
    /\ rq = [r \in Reqs |-> NoRequest]
    /\ registered = [r \in Reqs |-> NoHistory]
    /\ runs = [r \in Reqs |-> NoHistory]
    /\ probe = NoProbe
    /\ eh = NoError
    /\ rt = [r \in Reqs |-> NoRoute]
    /\ \E users \in UserTables : db = [NoDb EXCEPT !.users = users]
    /\ store = NoStore
    /\ hs = NoCall

NextAuth ==
    \/ Visit
    \/ \E body \in LoginBodies, throws \in BOOLEAN : SubmitLogin(body, throws)
    \/ Dashboard
    \/ \E body \in RegistrationBodies, at \in ThrowPoints :
           SubmitRegistration(body, at)
    \/ SessionSaveCallback
    \/ \E hasSession \in BOOLEAN : Logout(hasSession)
    \/ \E err \in BOOLEAN : DestroyCallback(err)

SpecAuth == InitAuth /\ [][NextAuth]_vars

\* the session store calls the callbacks of destroy and save
SpecAuthFair ==
    /\ SpecAuth
    /\ WF_vars(\E err \in BOOLEAN : DestroyCallback(err))
    /\ WF_vars(SessionSaveCallback)

(***************************************************************************)
(* Claims about login, logout and registration.                            *)
(***************************************************************************)
RedirectEvents ==
    {"redirect:/", "redirect:/login", "redirect:/register", "redirect:/dashboard"}

Redirects(events) == {i \in DOMAIN events : events[i] \in RedirectEvents}

\* the call ended with one redirect, to target, as its last event
EndsWith(call, target) ==
    /\ call.phase = "done"
    /\ Redirects(call.events) = {Len(call.events)}
    /\ call.events[Len(call.events)] = target

\* the rows a login submission matches: valid fields, the normalized email
\* and the hash of the submitted password
Matching(users, body) ==
    {i \in DOMAIN users :
         /\ isEmail(body.email)
         /\ Len(body.password) >= 8
         /\ users[i].email = normalizeEmail(body.email)
         /\ users[i].password = Hash(body.password)}

\* C23: a session's user is a saved user without its password field, put
\* there by a login that succeeded on that session; a submission that passed
\* validation, found the user and verified the password stores that user and
\* redirects to /dashboard; every other submission leaves the session as it
\* was and redirects to /login.
C23_LoginSetsSafeUser ==
    /\ \A sid \in DOMAIN store.sessions :
           (Stored(store, sid) /\ Truthy(store.sessions[sid].user)) =>
               /\ "password" \notin DOMAIN store.sessions[sid].user.props
               /\ \E i \in DOMAIN db.users :
                      /\ store.sessions[sid].user.props.email = db.users[i].email
                      /\ store.sessions[sid].user.props.name = db.users[i].name
               /\ store.loggedIn[sid]
    /\ (hs.handler = "processLogin" /\ hs.phase = "done") =>
           LET body == hs.login
               threw == hs.throwsAt # "none"
               users == db.users
               now == store.sessions[hs.sid]
           IN  IF ~threw /\ Matching(users, body) # {}
               THEN /\ EndsWith(hs, "redirect:/dashboard")
                    /\ Truthy(now.user)
                    /\ DOMAIN now.user.props = {"name", "email"}
                    /\ \E i \in Matching(users, body) :
                           now.user.props.email = users[i].email
               ELSE /\ EndsWith(hs, "redirect:/login")
                    /\ now = hs.sessionBefore

C23_Witness ==
    /\ hs.handler = "processLogin"
    /\ hs.phase = "done"
    /\ hs.login = LoginBody("Alice@x.org", "Passw0rd!")
    /\ ~Truthy(hs.sessionBefore.user)
    /\ Truthy(store.sessions[hs.sid].user)
    /\ store.sessions[hs.sid].user.props.email = "alice@x.org"
    /\ EndsWith(hs, "redirect:/dashboard")

\* C24: the isLoggedIn flag the composer computes for a request is true
\* exactly when a login succeeded earlier on the request's session and no
\* logout destroyed that session since; the request after a logout sees false.
C24_LoggedInFollowsSession ==
    (hs.handler = "addLocalVariables" /\ hs.phase = "done") =>
        /\ hs.events \in {<<"isLoggedIn:true">>, <<"isLoggedIn:false">>}
        /\ (hs.events = <<"isLoggedIn:true">>) <=> store.loggedIn[hs.sid]
        /\ (hs.prev = "processLogout" /\ hs.prevSid # 0) =>
               hs.events = <<"isLoggedIn:false">>

\* a login on session 1, a logout whose destroy failed, then the next request
C24_Witness ==
    /\ hs.handler = "addLocalVariables"
    /\ hs.phase = "done"
    /\ hs.prev = "processLogout"
    /\ hs.prevSid = 1
    /\ store.loggedIn[1]
    /\ hs.sid = 2
    /\ hs.events = <<"isLoggedIn:false">>

\* the state part of C25
LogoutOrder ==
    hs.handler = "processLogout" =>
        /\ hs.phase = "destroying" => hs.events = <<"destroy">>
        /\ hs.phase = "done" =>
               /\ EndsWith(hs, "redirect:/")
               /\ IF hs.hadSession
                  THEN /\ hs.events = <<"destroy", "callback", "clearCookie",
                                        "redirect:/">>
                       /\ store.cookie = 0
                  ELSE hs.events = <<"redirect:/">>

\* C25: processLogout ends every invocation with exactly one redirect to '/':
\* at once without a session; with one, nothing is sent before the destroy
\* callback, the callback comes, and the cookie is cleared before the
\* redirect whether or not destroy reported an error.
C25_LogoutRedirectsOnce ==
    /\ []LogoutOrder
    /\ (hs.handler = "processLogout" /\ hs.phase = "destroying")
           ~> (hs.handler = "processLogout" /\ EndsWith(hs, "redirect:/"))

\* destroy reported an error: the session is still stored, the cookie is gone
C25_Witness ==
    /\ hs.handler = "processLogout"
    /\ hs.phase = "done"
    /\ hs.hadSession
    /\ Stored(store, hs.sid)
    /\ store.cookie = 0
    /\ hs.events = <<"destroy", "callback", "clearCookie", "redirect:/">>

\* C26: processRegistration saves a user only for a submission without
\* validation errors whose email is not in the table, and saves the hash of
\* the password, never the password; any other submission saves nothing and
\* redirects to /register; after a save the redirect to /login comes only
\* with the session save callback.
C26_RegistrationSavesHash ==
    /\ \A i \in DOMAIN db.users :
           /\ db.users[i].password \notin RegistrationPasswords \cup LoginPasswords
           /\ \E p \in RegistrationPasswords \cup LoginPasswords :
                  db.users[i].password = Hash(p)
    /\ hs.handler = "processRegistration" =>
           LET body == hs.registration
               before == hs.usersBefore
               email == normalizeEmail(body.email)
               accepted == /\ registrationValidation(body).errors = <<>>
                           /\ \A i \in DOMAIN before : before[i].email # email
           IN  IF db.users # before
               THEN /\ accepted
                    /\ db.users = Append(before, [name |-> body.name,
                                                  email |-> email,
                                                  password |-> Hash(body.password)])
                    /\ hs.phase = "saving" => Redirects(hs.events) = {}
                    /\ hs.phase = "done" => EndsWith(hs, "redirect:/login")
                    /\ hs.phase = "done" =>
                           hs.events[Len(hs.events) - 1] = "callback"
               ELSE /\ EndsWith(hs, "redirect:/register")
                    /\ ~accepted \/ hs.throwsAt # "none"

C26_Witness ==
    /\ hs.handler = "processRegistration"
    /\ hs.phase = "done"
    /\ Len(db.users) = Len(hs.usersBefore) + 1
    /\ db.users[Len(db.users)].password = Hash("Passw0rd!")
    /\ EndsWith(hs, "redirect:/login")

====
